---- MODULE Spec2Model ----
(***************************************************************************)
(* Solar-Simulator: the per-frame simulation update (simulationUpdate.js), *)
(* the objects it works on (simulationObjects.js), the driver loop         *)
(* (app.js) and the input handlers of the UI controller (uiController.js). *)
(*                                                                         *)
(* Numbers are fixed point, every real result rounded toward zero:         *)
(*   time      centiseconds                 (TimeUnit per second)          *)
(*   angles    1e-5 rad                     (AngleUnit per radian)         *)
(*   angular speeds  1e-3 rad/s             (angle = speed * time, exact)  *)
(*   unit vectors, sines, cosines  1e-4     (One)                          *)
(*   velocity  1e-2 units/s                 (VelUnit per unit/s)           *)
(*   position  1e-4 units                   (position = velocity * time)   *)
(* Vectors are triples <<x, y, z>>.                                        *)
(***************************************************************************)
EXTENDS Integers, Sequences, FiniteSets, TLC

VARIABLES
    inputState,            \* uiController.js: { thrust, turnLeft, turnRight }
    isAiPilotActive,       \* uiController.js: the AI-pilot mode flag
    isPaused,              \* app.js: the pause flag
    spacecraft,            \* app.js: { mesh rotation, mesh position, velocity }
    shipTrajectoryPoints,  \* app.js: trajectory history, newest first
    shipTrajectoryLine,    \* app.js: the line drawn, { geometry }
    celestialBodies,       \* app.js: [sun, ...planets], each with its moons
    camera,                \* uiController.js: the focus transition, the camera and controls
    clock,                 \* app.js: the THREE.Clock shared by animate and the transition
    ui,                    \* uiController.js: the selection and the two panels
    writers,               \* history: who wrote inputState since the last frame
    frame,                 \* history: what the last run of animate did
    last,                  \* history: the last operation and its arguments
    steps                  \* history: number of operations so far

vars == <<ui, inputState, isAiPilotActive, isPaused, spacecraft,
          shipTrajectoryPoints, shipTrajectoryLine, celestialBodies,
          camera, clock, writers, frame, last, steps>>

---------------------------------------------------------------------------
(* Bounds of the model *)

MaxSteps == 3
MaxFrames == 2
MaxPoints == 3

(* Units *)
TimeUnit == 10 ^ 2
AngleUnit == 10 ^ 5
One == 10 ^ 4
VelUnit == 10 ^ 2
PosUnit == 10 ^ 4

(* The frame times tried: 0, 0.02 s, 1 s and 5 s. *)
DeltaValues == {0, 2, 100, 500}

(* null and undefined *)
Null == [null |-> TRUE]

(* obj?.field is undefined for a null object and for a missing field *)
HasField(obj, field) == obj # Null /\ field \in DOMAIN obj

---------------------------------------------------------------------------
(* Fixed-point arithmetic *)

Abs(a) == IF a < 0 THEN -a ELSE a

Sign(a) == IF a > 0 THEN 1 ELSE IF a < 0 THEN -1 ELSE 0

TruncDiv(a, b) == IF a >= 0 THEN a \div b ELSE -((-a) \div b)

Max2(a, b) == IF a >= b THEN a ELSE b

Min2(a, b) == IF a <= b THEN a ELSE b

RECURSIVE SqrtSearch(_, _, _)
SqrtSearch(n, lo, hi) ==
    IF lo >= hi THEN lo
    ELSE LET mid == (lo + hi + 1) \div 2
         IN  IF mid * mid <= n THEN SqrtSearch(n, mid, hi)
                               ELSE SqrtSearch(n, lo, mid - 1)

(* Math.sqrt, rounded down and rounded up *)
FloorSqrt(n) == SqrtSearch(n, 0, 46340)

CeilSqrt(n) == LET r == FloorSqrt(n) IN IF r * r = n THEN r ELSE r + 1

TwoPi == 628319
Pi == 314159
HalfPi == 157080

(* sin on [0, pi/2]: the series x - x^3/3! + x^5/5! - x^7/7! + x^9/9! *)
SinSeries(x) ==
    LET y  == (x + 5) \div 10
        y2 == (y * y) \div One
        t3 == (y * y2) \div (6 * One)
        t5 == (t3 * y2) \div (20 * One)
        t7 == (t5 * y2) \div (42 * One)
        t9 == (t7 * y2) \div (72 * One)
    IN  y - t3 + t5 - t7 + t9

(* Math.sin and Math.cos of an angle in 1e-5 rad, result in 1e-4 *)
Sin(a) ==
    LET r == a % TwoPi
    IN  IF r <= HalfPi THEN SinSeries(r)
        ELSE IF r <= Pi THEN SinSeries(Pi - r)
        ELSE IF r <= Pi + HalfPi THEN -SinSeries(r - Pi)
        ELSE -SinSeries(TwoPi - r)

Cos(a) == Sin(a + HalfPi)

(* THREE.Vector3 *)
Zero3 == <<0, 0, 0>>

VAdd(u, v) == <<u[1] + v[1], u[2] + v[2], u[3] + v[3]>>

VSub(u, v) == <<u[1] - v[1], u[2] - v[2], u[3] - v[3]>>

VDot(u, v) == u[1] * v[1] + u[2] * v[2] + u[3] * v[3]

VCross(u, v) == <<u[2] * v[3] - u[3] * v[2],
                  u[3] * v[1] - u[1] * v[3],
                  u[1] * v[2] - u[2] * v[1]>>

LengthSq(v) == VDot(v, v)

(* v * (num / den) *)
VScale(v, num, den) == <<TruncDiv(v[1] * num, den),
                         TruncDiv(v[2] * num, den),
                         TruncDiv(v[3] * num, den)>>

MaxAbs(v) == Max2(Abs(v[1]), Max2(Abs(v[2]), Abs(v[3])))

(* Vector3.normalize: v / (|v| || 1), the result a unit vector in 1e-4.   *)
(* Long vectors are scaled down first so that the squares fit.            *)
Normalize(v) ==
    LET k   == MaxAbs(v) \div 20000 + 1
        w   == VScale(v, 1, k)
        len == CeilSqrt(LengthSq(w))
    IN  IF len = 0 THEN Zero3 ELSE VScale(w, One, len)

---------------------------------------------------------------------------
(* simulationObjects.js: the objects of the world *)

(* planetData: name, radius (1e-2 of BASE_PLANET_RADIUS), distance, speed  *)
(* and axialSpeed (1e-3 rad/s), hasMoon                                    *)
planetData == <<
    [name |-> "Mercury", radius |-> 38, distance |-> 15,  speed |-> 800, axialSpeed |-> 100, hasMoon |-> FALSE],
    [name |-> "Venus",   radius |-> 95, distance |-> 25,  speed |-> 500, axialSpeed |-> 5,   hasMoon |-> FALSE],
    [name |-> "Earth",   radius |-> 100, distance |-> 38,  speed |-> 300, axialSpeed |-> 200, hasMoon |-> TRUE],
    [name |-> "Mars",    radius |-> 53, distance |-> 55,  speed |-> 200, axialSpeed |-> 180, hasMoon |-> FALSE],
    [name |-> "Jupiter", radius |-> 400, distance |-> 100, speed |-> 100, axialSpeed |-> 450, hasMoon |-> FALSE],
    [name |-> "Saturn",  radius |-> 350, distance |-> 150, speed |-> 60,  axialSpeed |-> 380, hasMoon |-> FALSE],
    [name |-> "Uranus",  radius |-> 200, distance |-> 200, speed |-> 40,  axialSpeed |-> 250, hasMoon |-> FALSE],
    [name |-> "Neptune", radius |-> 190, distance |-> 250, speed |-> 30,  axialSpeed |-> 260, hasMoon |-> FALSE] >>

(* constants.js: the radius of a planet of radius factor 1.0, in 1e-4 units *)
BASE_PLANET_RADIUS == 10000

(* new THREE.SphereGeometry(BASE_PLANET_RADIUS * radius, ...) *)
SphereRadius(factor) == (BASE_PLANET_RADIUS * factor) \div 100

(* A body: pivot is FALSE when the record's pivot is null; pivotRot is     *)
(* pivot.rotation.y, meshRot is mesh.rotation.y and distance is            *)
(* mesh.position.x, the offset of the mesh from its pivot. parent names    *)
(* what the pivot was added to: the scene, or the mesh of a planet.        *)
(* radius is the radius of the sphere geometry, scale is mesh.scale.x and  *)
(* boundingSphere is geometry.boundingSphere, null until it is computed.   *)
createSun ==
    [name |-> "Sun", pivot |-> FALSE, speed |-> 0, axialSpeed |-> 20,
     radius |-> SphereRadius(180), scale |-> 1, boundingSphere |-> Null,
     distance |-> 0, pivotRot |-> 0, meshRot |-> 0, parent |-> "scene",
     moons |-> <<>>]

createEarthMoon ==
    [name |-> "Moon", pivot |-> TRUE, speed |-> 1500, axialSpeed |-> 50,
     radius |-> SphereRadius(27), scale |-> 1, boundingSphere |-> Null,
     distance |-> 5, pivotRot |-> 0, meshRot |-> 0, parent |-> "Earth"]

createPlanets ==
    [i \in DOMAIN planetData |->
        [name |-> planetData[i].name, pivot |-> TRUE,
         speed |-> planetData[i].speed, axialSpeed |-> planetData[i].axialSpeed,
         radius |-> SphereRadius(planetData[i].radius), scale |-> 1,
         boundingSphere |-> Null,
         distance |-> planetData[i].distance, pivotRot |-> 0, meshRot |-> 0,
         parent |-> "scene",
         moons |-> IF planetData[i].hasMoon THEN <<createEarthMoon>> ELSE <<>>]]

(* Spacecraft constants: turnSpeed in 1e-3 rad/s, thrustPower in units/s^2, *)
(* drag in percent, maxSpeed in units/s.                                    *)
turnSpeed == 2500
thrustPower == 7
drag == 98
maxSpeed == 30

(* createSpacecraft: rotY is the angle turned about the local Y axis by    *)
(* rotateY, on top of the fixed mesh.rotation.x = PI / 2.                  *)
createSpacecraft(initialPosition) ==
    [rotY |-> 0, position |-> initialPosition, velocity |-> Zero3]

(* Object3D.getWorldPosition of a planet's mesh: the offset (distance,0,0) *)
(* rotated about the Y axis by the pivot's rotation.y (Matrix4             *)
(* makeRotationY: x' = x cos + z sin, z' = -x sin + z cos).                *)
WorldPosition(body) ==
    IF body.pivot
    THEN <<body.distance * Cos(body.pivotRot), 0, -(body.distance * Sin(body.pivotRot))>>
    ELSE Zero3

(* initApp: the ship starts at Earth's world position plus (0, 2, 5) *)
InitialShipPosition ==
    LET earth == CHOOSE i \in DOMAIN createPlanets : createPlanets[i].name = "Earth"
    IN  VAdd(WorldPosition(createPlanets[earth]), <<0, 2 * PosUnit, 5 * PosUnit>>)

---------------------------------------------------------------------------
(* simulationUpdate.js: updateSpacecraft *)

InputStates == [thrust : BOOLEAN, turnLeft : BOOLEAN, turnRight : BOOLEAN]

AllOff == [thrust |-> FALSE, turnLeft |-> FALSE, turnRight |-> FALSE]

(* (0, 0, -1).applyQuaternion(mesh.quaternion): the quaternion is the      *)
(* rotation by PI/2 about X followed, in the local frame, by rotY about Y. *)
(* Ry(t)(0,0,-1) = (-sin t, 0, -cos t); Rx(PI/2)(x,y,z) = (x, -z, y).      *)
ShipForward(sc) == <<-Sin(sc.rotY), Cos(sc.rotY), 0>>

(* (0, 1, 0).applyQuaternion(mesh.quaternion) *)
ShipUp(sc) == <<0, 0, One>>

(* The signs of the two turns exchanged *)
TurnAmountReversed(in, delta) ==
    (IF in.turnRight THEN turnSpeed * delta ELSE 0)
    - (IF in.turnLeft THEN turnSpeed * delta ELSE 0)

TurnAmount(in, delta) ==
    (IF in.turnLeft THEN turnSpeed * delta ELSE 0)
    - (IF in.turnRight THEN turnSpeed * delta ELSE 0)

Turned(sc, in, delta) == [sc EXCEPT !.rotY = @ + TurnAmount(in, delta)]

(* The thrust applied whatever the flag says *)
ThrustedAlways(sc, in, delta) ==
    [sc EXCEPT !.velocity =
        VAdd(@, VScale(ShipForward(sc), thrustPower * delta, One))]

Thrusted(sc, in, delta) ==
    IF in.thrust
    THEN [sc EXCEPT !.velocity =
            VAdd(@, VScale(ShipForward(sc), thrustPower * delta, One))]
    ELSE sc

Dragged(v) == VScale(v, drag, 100)

SpeedLimitMissing(v) == v

SpeedLimit(v) ==
    IF LengthSq(v) > (maxSpeed * VelUnit) * (maxSpeed * VelUnit)
    THEN VScale(Normalize(v), maxSpeed * VelUnit, One)
    ELSE v

Integrated(sc, delta) ==
    [sc EXCEPT !.position = VAdd(@, VScale(sc.velocity, delta, 1))]

(* The thrust applied along the heading the step started with *)
updateSpacecraftThrustBeforeTurn(sc, in, delta) ==
    IF sc = Null THEN sc
    ELSE LET a == Turned(Thrusted(sc, in, delta), in, delta)
             b == [a EXCEPT !.velocity = SpeedLimit(Dragged(a.velocity))]
         IN  Integrated(b, delta)

updateSpacecraft(sc, in, delta) ==
    IF sc = Null THEN sc
    ELSE LET a == Thrusted(Turned(sc, in, delta), in, delta)
             b == [a EXCEPT !.velocity = SpeedLimit(Dragged(a.velocity))]
         IN  Integrated(b, delta)

---------------------------------------------------------------------------
(* simulationObjects.js: initTrajectoryLine; simulationUpdate.js:          *)
(* updateTrajectoryLine                                                    *)

initTrajectoryLine(sc) ==
    [geometry |-> IF sc = Null THEN <<>> ELSE <<sc.position>>]

(* while (trajectoryPoints.length > maxPoints + 1) pop() *)
RECURSIVE PopWhileLongerOffByOne(_, _)
PopWhileLongerOffByOne(points, maxPoints) ==
    IF Len(points) > maxPoints + 1
    THEN PopWhileLongerOffByOne(SubSeq(points, 1, Len(points) - 1), maxPoints)
    ELSE points

(* while (trajectoryPoints.length > maxPoints) shift() *)
RECURSIVE ShiftWhileLonger(_, _)
ShiftWhileLonger(points, maxPoints) ==
    IF Len(points) > maxPoints
    THEN ShiftWhileLonger(Tail(points), maxPoints)
    ELSE points

(* while (trajectoryPoints.length > maxPoints) pop() *)
RECURSIVE PopWhileLonger(_, _)
PopWhileLonger(points, maxPoints) ==
    IF Len(points) > maxPoints
    THEN PopWhileLonger(SubSeq(points, 1, Len(points) - 1), maxPoints)
    ELSE points

(* The result is the pair of the points array and the line. The points     *)
(* array is always an array here (a const of app.js), so !trajectoryPoints *)
(* is false.                                                               *)
updateTrajectoryLine(sc, line, points, maxPoints) ==
    IF sc = Null \/ line = Null
    THEN [points |-> points, line |-> line]
    ELSE LET currentPosition == sc.position
         IN  IF Len(points) = 0 \/ points[1] # currentPosition
             THEN LET kept == PopWhileLonger(<<currentPosition>> \o points, maxPoints)
                  IN  [points |-> kept, line |-> [line EXCEPT !.geometry = kept]]
             ELSE [points |-> points, line |-> line]

---------------------------------------------------------------------------
(* simulationUpdate.js: updateCelestials *)

(* rotation.y = speed * delta *)
AdvanceAngleAssigned(angle, speed, delta) == speed * delta

(* rotation.y += speed * delta *)
AdvanceAngle(angle, speed, delta) == angle + speed * delta

(* The two if statements on a body or on a moon; a mesh is always present. *)
AdvanceRotations(body, delta) ==
    [body EXCEPT
        !.pivotRot = IF body.pivot THEN AdvanceAngle(@, body.speed, delta) ELSE @,
        !.meshRot  = AdvanceAngle(@, body.axialSpeed, delta)]

AdvanceBody(body, delta) ==
    LET b == AdvanceRotations(body, delta)
    IN  [b EXCEPT !.moons = [j \in DOMAIN b.moons |-> AdvanceRotations(b.moons[j], delta)]]

updateCelestialsIgnoringPause(bodies, delta, paused) ==
    [i \in DOMAIN bodies |-> AdvanceBody(bodies[i], delta)]

updateCelestials(bodies, delta, paused) ==
    IF paused THEN bodies
    ELSE [i \in DOMAIN bodies |-> AdvanceBody(bodies[i], delta)]

---------------------------------------------------------------------------
(* simulationUpdate.js: calculateFuturePosition *)

BodyNamed(name) ==
    celestialBodies[CHOOSE i \in DOMAIN celestialBodies : celestialBodies[i].name = name]

(* body.pivot.getWorldPosition: the pivots of the planets sit at the       *)
(* origin of the scene, the pivot of a moon at the mesh of its planet.     *)
PivotWorldPosition(body) ==
    IF body.parent = "scene" THEN Zero3 ELSE WorldPosition(BodyNamed(body.parent))

(* The rotation about Y of the frame the pivot of the body lives in. *)
ParentRotation(body) ==
    IF body.parent = "scene" THEN 0
    ELSE BodyNamed(body.parent).pivotRot + BodyNamed(body.parent).meshRot

(* mesh.getWorldPosition of a planet or a moon *)
MeshWorldPosition(body) ==
    LET angle == ParentRotation(body) + body.pivotRot
    IN  VAdd(PivotWorldPosition(body),
             <<body.distance * Cos(angle), 0, -(body.distance * Sin(angle))>>)

(* !body || !body.pivot || typeof body.speed !== 'number' || !body.mesh:    *)
(* a record has a mesh when it has the distance of the mesh from its pivot. *)
InvalidBody(body) ==
    \/ body = Null
    \/ ~HasField(body, "pivot")
    \/ ~body.pivot
    \/ ~HasField(body, "speed")
    \/ ~HasField(body, "distance")

(* The guard without the test of the pivot: body.pivot.rotation of a null   *)
(* pivot throws a TypeError.                                                *)
calculateFuturePositionPivotUnchecked(body, timeAhead) ==
    IF body = Null \/ ~HasField(body, "speed") \/ ~HasField(body, "distance")
    THEN [position |-> Zero3, body |-> body, warned |-> TRUE, threw |-> FALSE]
    ELSE IF ~HasField(body, "pivot") \/ ~body.pivot
    THEN [position |-> Zero3, body |-> body, warned |-> FALSE, threw |-> TRUE]
    ELSE LET futureAngle   == body.pivotRot + body.speed * timeAhead
             pivotPosition == PivotWorldPosition(body)
         IN  [position |-> <<pivotPosition[1] + Cos(futureAngle) * body.distance,
                             pivotPosition[2],
                             pivotPosition[3] + Sin(futureAngle) * body.distance>>,
              body |-> body, warned |-> FALSE, threw |-> FALSE]

(* The result: the position returned, the body as the call leaves it,       *)
(* whether console.warn was called and whether the call threw. timeAhead is *)
(* in centiseconds.                                                         *)
calculateFuturePositionAdvancing(body, timeAhead) ==
    IF InvalidBody(body)
    THEN [position |-> Zero3, body |-> body, warned |-> TRUE, threw |-> FALSE]
    ELSE LET futureAngle   == body.pivotRot + body.speed * timeAhead
             pivotPosition == PivotWorldPosition(body)
         IN  [position |-> <<pivotPosition[1] + Cos(futureAngle) * body.distance,
                             pivotPosition[2],
                             pivotPosition[3] + Sin(futureAngle) * body.distance>>,
              body |-> [body EXCEPT !.pivotRot = futureAngle], warned |-> FALSE,
              threw |-> FALSE]

calculateFuturePosition(body, timeAhead) ==
    IF InvalidBody(body)
    THEN [position |-> Zero3, body |-> body, warned |-> TRUE, threw |-> FALSE]
    ELSE LET currentAngle  == body.pivotRot
             futureAngle   == currentAngle + body.speed * timeAhead
             distance      == body.distance
             futureX       == Cos(futureAngle) * distance
             futureZ       == Sin(futureAngle) * distance
             pivotPosition == PivotWorldPosition(body)
         IN  [position |-> <<pivotPosition[1] + futureX, pivotPosition[2],
                             pivotPosition[3] + futureZ>>,
              body |-> body, warned |-> FALSE, threw |-> FALSE]

---------------------------------------------------------------------------
(* simulationUpdate.js: objectRadius and updateAiPilot *)

(* A JavaScript number that may be NaN *)
Num(n) == [nan |-> FALSE, value |-> n]

NaN == [nan |-> TRUE, value |-> 0]

(* a >= b on numbers *)
GreaterOrEqual(a, b) == ~a.nan /\ ~b.nan /\ a.value >= b.value

(* a > b on numbers: false when either is NaN *)
Greater(a, b) == ~a.nan /\ ~b.nan /\ a.value > b.value

(* a * k *)
Times(a, k) == [a EXCEPT !.value = @ * k]

(* obj?.geometry?.boundingSphere?.radius ?? (obj?.scale?.x * BASE_PLANET_RADIUS) ?? 1 *)
(* undefined * BASE_PLANET_RADIUS is NaN, and NaN is not nullish.                     *)
(* An object lacks geometry.boundingSphere or scale when its record has no  *)
(* such field; the fallback 1 is never reached.                            *)
objectRadius(obj) ==
    IF HasField(obj, "boundingSphere") /\ obj.boundingSphere # Null
    THEN Num(obj.boundingSphere.radius)
    ELSE IF HasField(obj, "scale") THEN Num(obj.scale * BASE_PLANET_RADIUS)
    ELSE NaN

(* uiController.js: objectRadiusHelper, the same expression *)
objectRadiusHelper(obj) ==
    IF HasField(obj, "boundingSphere") /\ obj.boundingSphere # Null
    THEN Num(obj.boundingSphere.radius)
    ELSE IF HasField(obj, "scale") THEN Num(obj.scale * BASE_PLANET_RADIUS)
    ELSE NaN

(* Vector3.length and distanceTo, in the unit of the vector; long vectors  *)
(* are scaled down first so that the squares fit.                          *)
Length(v) ==
    LET k == MaxAbs(v) \div 20000 + 1
    IN  FloorSqrt(LengthSq(VScale(v, 1, k))) * k

(* The cosine (1e-4) of Vector3.angleTo of two unit vectors: angleTo       *)
(* returns PI / 2 when the denominator is 0.                               *)
CosAngleTo(u, v) ==
    LET denominator == FloorSqrt(LengthSq(u)) * FloorSqrt(LengthSq(v))
    IN  IF denominator = 0 THEN 0
        ELSE Max2(-One, Min2(One, TruncDiv(VDot(u, v), Max2(1, denominator \div One))))

(* THREE.MathUtils.degToRad(5) *)
angleThreshold == (5 * Pi) \div 180

(* angle > angleThreshold, for angles in [0, PI] where cos decreases *)
AngleExceedsThreshold(u, v) == CosAngleTo(u, v) < Cos(angleThreshold)

(* Math.sign(cross.dot(shipUp)) *)
TurnDirectionSign(sc, targetDirection) ==
    Sign(VDot(VScale(VCross(ShipForward(sc), targetDirection), 1, One), ShipUp(sc)))

(* The early return that leaves the record as it is *)
InactiveInputKept(in) == in

(* inputState.thrust = false; inputState.turnLeft = false; inputState.turnRight = false *)
InactiveInput(in) == AllOff

(* No turn when the sign is 0 *)
SteerInputNoTurnOnZero(sc, targetObject) ==
    LET shipPos          == sc.position
        targetPos        == MeshWorldPosition(targetObject)
        targetDirection  == Normalize(VSub(targetPos, shipPos))
        distanceToTarget == Length(VSub(targetPos, shipPos))
    IN  IF AngleExceedsThreshold(ShipForward(sc), targetDirection)
        THEN IF TurnDirectionSign(sc, targetDirection) > 0
             THEN [AllOff EXCEPT !.turnLeft = TRUE]
             ELSE IF TurnDirectionSign(sc, targetDirection) < 0
                  THEN [AllOff EXCEPT !.turnRight = TRUE]
                  ELSE AllOff
        ELSE IF Greater(Num(distanceToTarget), Times(objectRadius(targetObject), 2))
             THEN [AllOff EXCEPT !.thrust = TRUE]
             ELSE AllOff

(* The active branch: the record is reset and then set from the bearing. *)
SteerInput(sc, targetObject) ==
    LET shipPos          == sc.position
        targetPos        == MeshWorldPosition(targetObject)
        targetDirection  == Normalize(VSub(targetPos, shipPos))
        distanceToTarget == Length(VSub(targetPos, shipPos))
    IN  IF AngleExceedsThreshold(ShipForward(sc), targetDirection)
        THEN IF TurnDirectionSign(sc, targetDirection) > 0
             THEN [AllOff EXCEPT !.turnLeft = TRUE]
             ELSE [AllOff EXCEPT !.turnRight = TRUE]
        ELSE IF Greater(Num(distanceToTarget), Times(objectRadius(targetObject), 2))
             THEN [AllOff EXCEPT !.thrust = TRUE]
             ELSE AllOff

updateAiPilot(sc, targetObject, in, delta, isAiActive) ==
    IF ~isAiActive \/ sc = Null \/ targetObject = Null
    THEN InactiveInput(in)
    ELSE SteerInput(sc, targetObject)

---------------------------------------------------------------------------
(* The state after initApp *)

NoFrame == [n |-> 0]

(* new THREE.Clock(): autoStart, not running, elapsedTime 0. now is the    *)
(* time of performance.now(), in centiseconds.                             *)
InitClock == [running |-> FALSE, oldTime |-> 0, elapsedTime |-> 0, now |-> 0]

(* createCamera, createControls and the transition state of uiController.js; *)
(* transitionRequestId 0 is null, scheduled holds the handles of the        *)
(* transition callbacks requestAnimationFrame has pending.                  *)
InitCamera ==
    [isTransitioning |-> FALSE, transitionStartTime |-> 0,
     startCamPos |-> Zero3, endCamPos |-> Zero3,
     startTargetPos |-> Zero3, endTargetPos |-> Zero3,
     transitionRequestId |-> 0, scheduled |-> {}, lastHandle |-> 0,
     position |-> <<0, 80 * PosUnit, 180 * PosUnit>>, target |-> Zero3]

(* uiController.js and index.htm: nothing selected, no inline display on   *)
(* the panels, anomalyCooldown 0, the status text "Nominal", the position  *)
(* texts "-" (here <<>>). selectedPlanetForPrediction is the index of the  *)
(* body in celestialBodies, 0 for null and undefined.                      *)
InitUi ==
    [selectedPlanetForPrediction |-> 0, infoPanel |-> "", predictionPanel |-> "",
     infoName |-> "-", predictPlanetName |-> "-",
     anomalyCooldown |-> 0, predictionStatus |-> "Nominal",
     predictSimPos10 |-> <<>>, predictSimPos30 |-> <<>>]

InitOthers ==
    /\ inputState = AllOff
    /\ isAiPilotActive = FALSE
    /\ isPaused = FALSE
    /\ shipTrajectoryPoints = <<>>
    /\ shipTrajectoryLine = initTrajectoryLine(createSpacecraft(InitialShipPosition))
    /\ celestialBodies = <<createSun>> \o createPlanets
    /\ camera = InitCamera
    /\ clock = InitClock
    /\ ui = InitUi
    /\ writers = {}
    /\ frame = NoFrame
    /\ last = [op |-> "init"]
    /\ steps = 0

InitWorld ==
    /\ spacecraft = createSpacecraft(InitialShipPosition)
    /\ InitOthers

(* The state after initApp with another ship, collection or pause flag *)
InitWith(sc, bodies, paused) ==
    /\ spacecraft = sc
    /\ inputState = AllOff
    /\ isAiPilotActive = FALSE
    /\ isPaused = paused
    /\ shipTrajectoryPoints = <<>>
    /\ shipTrajectoryLine = initTrajectoryLine(sc)
    /\ celestialBodies = bodies
    /\ camera = InitCamera
    /\ clock = InitClock
    /\ ui = InitUi
    /\ writers = {}
    /\ frame = NoFrame
    /\ last = [op |-> "init"]
    /\ steps = 0

---------------------------------------------------------------------------
(* SpecKinematics: updateSpacecraft called with any input record and any   *)
(* frame time.                                                             *)

StepCall(in, delta) ==
    /\ steps < MaxSteps
    /\ inputState' = in
    /\ spacecraft' = updateSpacecraft(spacecraft, in, delta)
    /\ last' = [op |-> "updateSpacecraft", input |-> in, delta |-> delta,
                before |-> spacecraft]
    /\ steps' = steps + 1
    /\ UNCHANGED <<ui, camera, clock, isAiPilotActive, isPaused, shipTrajectoryPoints,
                   shipTrajectoryLine, celestialBodies, writers, frame>>

NextKinematics == \E in \in InputStates, delta \in DeltaValues : StepCall(in, delta)

SpecKinematics == InitWorld /\ [][NextKinematics]_vars

(* C1: after every call of updateSpacecraft, for any inputs and any dt >= 0, *)
(* the magnitude of the velocity is at most maxSpeed.                        *)
C1_SpeedAtMostMax ==
    LengthSq(spacecraft.velocity) <= (maxSpeed * VelUnit) * (maxSpeed * VelUnit)

(* A step whose velocity after thrust and drag exceeded maxSpeed. *)
C1_Witness ==
    /\ last.op = "updateSpacecraft"
    /\ LET a == Thrusted(Turned(last.before, last.input, last.delta),
                         last.input, last.delta)
       IN  LengthSq(Dragged(a.velocity)) > (maxSpeed * VelUnit) * (maxSpeed * VelUnit)
    /\ spacecraft.velocity # Zero3

(* C14: a step from rest with thrust = true, where thrustPower * dt * drag   *)
(* does not exceed maxSpeed, yields the velocity thrustPower * dt * drag     *)
(* along the forward direction the craft has after the turn of that step,   *)
(* and moves the position by that new velocity times dt: the stages run in  *)
(* the order turn, thrust, drag, speed clamp, integration. The magnitude is  *)
(* compared up to the rounding of the two roundings per component.          *)
C14_StagesInOrder ==
    (/\ last.op = "updateSpacecraft"
     /\ last.before.velocity = Zero3
     /\ last.input.thrust
     /\ thrustPower * last.delta * drag <= maxSpeed * TimeUnit * 100)
    => LET heading  == last.before.rotY + TurnAmount(last.input, last.delta)
           forward  == <<-Sin(heading), Cos(heading), 0>>
           expected == VScale(VScale(forward, thrustPower * last.delta, One), drag, 100)
       IN  /\ spacecraft.rotY = heading
           /\ spacecraft.velocity = expected
           /\ Abs(Length(spacecraft.velocity) - (thrustPower * last.delta * drag) \div 100) <= 4
           /\ spacecraft.position =
                 VAdd(last.before.position, VScale(expected, last.delta, 1))

(* A step of 1 s from rest that turned and thrusted. *)
C14_Witness ==
    /\ last.op = "updateSpacecraft"
    /\ last.before.velocity = Zero3
    /\ last.input = [thrust |-> TRUE, turnLeft |-> TRUE, turnRight |-> FALSE]
    /\ last.delta = TimeUnit
    /\ spacecraft.velocity # Zero3
    /\ spacecraft.position # last.before.position

---------------------------------------------------------------------------
(* SpecCoast: updateSpacecraft called again and again without thrust on a  *)
(* craft at rest, at several places and headings.                          *)

CoastPositions ==
    { InitialShipPosition, Zero3, <<-(100 * PosUnit), 0, 5 * PosUnit>> }

CoastHeadings == {0, HalfPi, Pi}

InitCoast ==
    /\ spacecraft \in { [createSpacecraft(p) EXCEPT !.rotY = h] :
                          p \in CoastPositions, h \in CoastHeadings }
    /\ InitOthers

NextCoast ==
    \E in \in InputStates, delta \in DeltaValues : ~in.thrust /\ StepCall(in, delta)

SpecCoast == InitCoast /\ [][NextCoast]_vars

(* C11: from zero velocity, after any number of steps whose input has       *)
(* thrust = false, whatever the turn flags and dt, the velocity is still    *)
(* zero and the position is the one the craft started at.                   *)
C11_NoPhantomDrift ==
    /\ spacecraft.velocity = Zero3
    /\ spacecraft.position \in CoastPositions
    /\ last.op = "updateSpacecraft" => spacecraft.position = last.before.position

(* The last of MaxSteps steps without thrust, turning for 1 s. *)
C11_Witness ==
    /\ last.op = "updateSpacecraft"
    /\ steps = MaxSteps
    /\ last.input.turnLeft
    /\ ~last.input.turnRight
    /\ last.delta = TimeUnit
    /\ spacecraft.rotY # last.before.rotY

---------------------------------------------------------------------------
(* SpecTrajectory: updateTrajectoryLine called again and again with a      *)
(* fixed maxPoints, the ship standing still or moved between the calls.    *)

MaxRecords == 5

TrajectoryPositions ==
    { InitialShipPosition,
      VAdd(InitialShipPosition, <<PosUnit, 0, 0>>),
      VAdd(InitialShipPosition, <<0, PosUnit, 0>>) }

MoveShip(p) ==
    /\ p # spacecraft.position
    /\ spacecraft' = [spacecraft EXCEPT !.position = p]
    /\ last' = [op |-> "moveShip"]
    /\ UNCHANGED <<ui, camera, clock, inputState, isAiPilotActive, isPaused, shipTrajectoryPoints,
                   shipTrajectoryLine, celestialBodies, writers, frame, steps>>

RecordCall ==
    /\ steps < MaxRecords
    /\ LET r == updateTrajectoryLine(spacecraft, shipTrajectoryLine,
                                     shipTrajectoryPoints, MaxPoints)
       IN  /\ shipTrajectoryPoints' = r.points
           /\ shipTrajectoryLine' = r.line
    /\ last' = [op |-> "updateTrajectoryLine", before |-> shipTrajectoryPoints,
                maxPoints |-> MaxPoints]
    /\ steps' = steps + 1
    /\ UNCHANGED <<ui, camera, clock, inputState, isAiPilotActive, isPaused, spacecraft,
                   celestialBodies, writers, frame>>

NextTrajectory == (\E p \in TrajectoryPositions : MoveShip(p)) \/ RecordCall

SpecTrajectory == InitWorld /\ [][NextTrajectory]_vars

(* C5: after any sequence of updateTrajectoryLine calls with a fixed        *)
(* maxPoints, starting from an empty history, the history holds at most     *)
(* maxPoints entries.                                                       *)
C5_LengthAtMostMaxPoints == Len(shipTrajectoryPoints) <= MaxPoints

(* A call that found the history full and the ship at a new position. *)
C5_Witness ==
    /\ last.op = "updateTrajectoryLine"
    /\ Len(last.before) = MaxPoints
    /\ last.before[1] # spacecraft.position

(* C6: a call whose current position equals the newest entry leaves the     *)
(* history unchanged; otherwise the position becomes the first entry, the    *)
(* previous entries follow in their order and the oldest are dropped from    *)
(* the tail until at most maxPoints remain.                                  *)
C6_RecordResult ==
    last.op = "updateTrajectoryLine" =>
        LET before == last.before
            now    == shipTrajectoryPoints
            pos    == spacecraft.position
        IN  IF Len(before) > 0 /\ before[1] = pos
            THEN now = before
            ELSE /\ Len(now) = Min2(Len(before) + 1, last.maxPoints)
                 /\ now[1] = pos
                 /\ \A i \in 2..Len(now) : now[i] = before[i - 1]

(* A record at a position seen before, on a full history: the tail is dropped. *)
C6_Witness ==
    /\ last.op = "updateTrajectoryLine"
    /\ Len(last.before) = MaxPoints
    /\ last.before[1] # spacecraft.position
    /\ shipTrajectoryPoints[MaxPoints] = last.before[MaxPoints - 1]
    /\ shipTrajectoryPoints[1] \in { last.before[i] : i \in 2..MaxPoints }

---------------------------------------------------------------------------
(* SpecCelestials: updateCelestials called with any frame time, paused or  *)
(* not, and calculateFuturePosition called on any body in between.         *)

(* A body is referred to by its index, a moon also by its index in moons. *)
BodyRefs ==
    { <<i>> : i \in DOMAIN celestialBodies }
    \cup UNION { { <<i, j>> : j \in DOMAIN celestialBodies[i].moons } :
                 i \in DOMAIN celestialBodies }

BodyAt(ref) ==
    IF Len(ref) = 1 THEN celestialBodies[ref[1]]
    ELSE celestialBodies[ref[1]].moons[ref[2]]

(* Prediction horizons: 0, and the 10 s and 30 s of the prediction panel *)
TimesAhead == {0, 10 * TimeUnit, 30 * TimeUnit}

WorldState == <<inputState, isAiPilotActive, isPaused, spacecraft,
                shipTrajectoryPoints, shipTrajectoryLine, celestialBodies>>

AdvanceCall(delta, paused) ==
    /\ steps < MaxSteps
    /\ celestialBodies' = updateCelestials(celestialBodies, delta, paused)
    /\ last' = [op |-> "updateCelestials", delta |-> delta, paused |-> paused,
                before |-> celestialBodies,
                prior |-> IF last.op = "updateCelestials" /\ ~last.paused
                          THEN [delta |-> last.delta, before |-> last.before]
                          ELSE Null]
    /\ steps' = steps + 1
    /\ UNCHANGED <<ui, camera, clock, inputState, isAiPilotActive, isPaused, spacecraft,
                   shipTrajectoryPoints, shipTrajectoryLine, writers, frame>>

PredictCall(ref, timeAhead) ==
    /\ LET r == calculateFuturePosition(BodyAt(ref), timeAhead)
       IN  /\ ~r.threw
           /\ celestialBodies' =
                 IF Len(ref) = 1
                 THEN [celestialBodies EXCEPT ![ref[1]] = r.body]
                 ELSE [celestialBodies EXCEPT ![ref[1]].moons[ref[2]] = r.body]
           /\ last' = [op |-> "calculateFuturePosition", ref |-> ref,
                       timeAhead |-> timeAhead, position |-> r.position,
                       warned |-> r.warned,
                       before |-> WorldState,
                       prior |-> IF last.op = "calculateFuturePosition"
                                 THEN [ref |-> last.ref, timeAhead |-> last.timeAhead,
                                       position |-> last.position]
                                 ELSE Null]
    /\ UNCHANGED <<ui, camera, clock, inputState, isAiPilotActive, isPaused, spacecraft,
                   shipTrajectoryPoints, shipTrajectoryLine, writers, frame, steps>>

(* Bodies calculateFuturePosition rejects: none, the Sun record (pivot      *)
(* null), a record without a numeric speed, a record without a mesh.        *)
InvalidBodies ==
    { Null,
      createSun,
      [name |-> "no speed", pivot |-> TRUE, pivotRot |-> 30000, distance |-> 15,
       parent |-> "scene"],
      [name |-> "no mesh", pivot |-> TRUE, pivotRot |-> 30000, speed |-> 800,
       parent |-> "scene"],
      [name |-> "no pivot", speed |-> 800, distance |-> 15] }

(* calculateFuturePosition called on a body that is not in the collection *)
PredictDetachedCall(body, timeAhead) ==
    /\ last' = [op |-> "calculateFuturePosition(detached)", body |-> body,
                timeAhead |-> timeAhead,
                result |-> calculateFuturePosition(body, timeAhead),
                before |-> WorldState]
    /\ UNCHANGED <<ui, camera, clock, inputState, isAiPilotActive, isPaused, spacecraft,
                   shipTrajectoryPoints, shipTrajectoryLine, celestialBodies,
                   writers, frame, steps>>

NextCelestials ==
    \/ \E delta \in DeltaValues, paused \in BOOLEAN : AdvanceCall(delta, paused)
    \/ \E ref \in BodyRefs, timeAhead \in TimesAhead : PredictCall(ref, timeAhead)
    \/ \E body \in InvalidBodies, timeAhead \in TimesAhead :
          PredictDetachedCall(body, timeAhead)

SpecCelestials == InitWorld /\ [][NextCelestials]_vars

(* C7: for every orbiting body and every reachable orbital angle,           *)
(* calculateFuturePosition(body, 0) is the body's current world position.   *)
C7_PredictionAtZeroIsCurrent ==
    \A ref \in BodyRefs :
        BodyAt(ref).pivot =>
            calculateFuturePosition(BodyAt(ref), 0).position = MeshWorldPosition(BodyAt(ref))

(* C8: calculateFuturePosition changes neither the body nor any other       *)
(* simulation state, and a second call with the same body and timeAhead     *)
(* returns the same position.                                               *)
C8_PredictionIsPure ==
    last.op = "calculateFuturePosition" =>
        /\ WorldState = last.before
        /\ (last.prior # Null /\ last.prior.ref = last.ref
                /\ last.prior.timeAhead = last.timeAhead)
           => last.position = last.prior.position

(* Two calls in a row on a moving planet, with a horizon in the future. *)
C8_Witness ==
    /\ last.op = "calculateFuturePosition"
    /\ last.prior # Null
    /\ last.prior.ref = last.ref
    /\ last.prior.timeAhead = last.timeAhead
    /\ last.timeAhead > 0
    /\ BodyAt(last.ref).pivot
    /\ BodyAt(last.ref).pivotRot > 0

(* C9: a call of updateCelestials with paused = true changes no orbital     *)
(* and no axial angle of any body or moon, for any dt.                      *)
C9_PausedChangesNothing ==
    (last.op = "updateCelestials" /\ last.paused) => celestialBodies = last.before

(* A paused call with dt > 0 on bodies that had moved before. *)
C9_Witness ==
    /\ last.op = "updateCelestials"
    /\ last.paused
    /\ last.delta > 0
    /\ celestialBodies # <<createSun>> \o createPlanets

(* C10: for every split dt = dt1 + dt2, an unpaused call with dt1 followed  *)
(* by one with dt2 yields the orbital and axial angles of one call with dt. *)
C10_SplitIsAdditive ==
    (last.op = "updateCelestials" /\ ~last.paused /\ last.prior # Null) =>
        celestialBodies =
            updateCelestials(last.prior.before, last.prior.delta + last.delta, FALSE)

(* Two unpaused calls in a row, both with dt > 0. *)
C10_Witness ==
    /\ last.op = "updateCelestials"
    /\ ~last.paused
    /\ last.prior # Null
    /\ last.prior.delta > 0
    /\ last.delta > 0
    /\ last.prior.delta # last.delta

(* C20: calculateFuturePosition called with an absent body, or with a body  *)
(* lacking a pivot, a numeric speed or a mesh (the Sun record has a null    *)
(* pivot), returns the origin as an ordinary value, raises nothing and      *)
(* leaves all simulation state unchanged.                                   *)
C20_InvalidBodyGivesOrigin ==
    /\ last.op = "calculateFuturePosition(detached)" =>
          /\ InvalidBody(last.body)
          /\ last.result.position = Zero3
          /\ ~last.result.threw
          /\ last.result.body = last.body
          /\ WorldState = last.before
    /\ (last.op = "calculateFuturePosition" /\ InvalidBody(BodyAt(last.ref))) =>
          /\ last.position = Zero3
          /\ WorldState = last.before
    /\ \A ref \in BodyRefs, timeAhead \in TimesAhead :
          InvalidBody(BodyAt(ref)) =>
              /\ calculateFuturePosition(BodyAt(ref), timeAhead).position = Zero3
              /\ ~calculateFuturePosition(BodyAt(ref), timeAhead).threw

(* A prediction asked of the Sun of the collection, after the bodies moved. *)
C20_Witness ==
    /\ last.op = "calculateFuturePosition"
    /\ BodyAt(last.ref).name = "Sun"
    /\ ~BodyAt(last.ref).pivot
    /\ last.timeAhead > 0
    /\ last.warned
    /\ celestialBodies # <<createSun>> \o createPlanets

---------------------------------------------------------------------------
(* SpecNested: updateCelestials and calculateFuturePosition on a           *)
(* collection whose hierarchy of moons is two levels deep: the Moon of     *)
(* Earth has a satellite of its own.                                       *)

Moonlet ==
    [name |-> "Moonlet", pivot |-> TRUE, speed |-> 2000, axialSpeed |-> 100,
     radius |-> SphereRadius(10), scale |-> 1, boundingSphere |-> Null,
     distance |-> 1, pivotRot |-> 0, meshRot |-> 0, parent |-> "Moon"]

MoonWithMoonlet ==
    [f \in DOMAIN createEarthMoon \cup {"moons"} |->
        IF f = "moons" THEN <<Moonlet>> ELSE createEarthMoon[f]]

NestedBodies ==
    <<createSun>> \o
    [i \in DOMAIN createPlanets |->
        [createPlanets[i] EXCEPT
            !.moons = [j \in DOMAIN @ |-> MoonWithMoonlet]]]

InitNested ==
    InitWith(createSpacecraft(InitialShipPosition), NestedBodies, FALSE)

SpecNested == InitNested /\ [][NextCelestials]_vars

(* A body and all its descendants have advanced by speed * dt *)
RECURSIVE AdvancedAtEveryDepth(_, _, _)
AdvancedAtEveryDepth(before, after, delta) ==
    /\ after.pivotRot =
          IF before.pivot THEN before.pivotRot + before.speed * delta
          ELSE before.pivotRot
    /\ after.meshRot = before.meshRot + before.axialSpeed * delta
    /\ HasField(before, "moons") =>
          \A j \in DOMAIN before.moons :
              AdvancedAtEveryDepth(before.moons[j], after.moons[j], delta)

---------------------------------------------------------------------------
(* SpecPilot: updateAiPilot called on any record, active or not, with or   *)
(* without a spacecraft and a target, the ship placed at several bearings  *)
(* to the target.                                                          *)

(* renderer.render: the frustum test computes the bounding sphere of every *)
(* mesh geometry that has none yet.                                        *)
WithBoundingSphere(body) ==
    [body EXCEPT !.boundingSphere = IF @ = Null THEN [radius |-> body.radius] ELSE @]

Rendered(bodies) ==
    [i \in DOMAIN bodies |->
        LET b == WithBoundingSphere(bodies[i])
        IN  [b EXCEPT !.moons = [j \in DOMAIN b.moons |-> WithBoundingSphere(b.moons[j])]]]

(* app.js: aiTargetObject is the mesh of Mars *)
aiTargetObject == BodyNamed("Mars")

(* The start of the ship; far from Mars and almost in its plane; at 1 and   *)
(* at 2 units from Mars; at the centre of Mars.                             *)
PilotPositions ==
    { InitialShipPosition,
      <<-(100 * PosUnit), 0, 5 * PosUnit>>,
      <<54 * PosUnit, 0, 0>>,
      <<53 * PosUnit, 0, 0>>,
      <<55 * PosUnit, 0, 0>> }

PilotHeadings == {0, HalfPi, Pi, Pi + HalfPi}

InitPilot ==
    /\ spacecraft \in { [createSpacecraft(p) EXCEPT !.rotY = h] :
                          p \in PilotPositions, h \in PilotHeadings }
    /\ InitOthers

PilotCall(in, active, withShip, withTarget) ==
    /\ inputState' = updateAiPilot(IF withShip THEN spacecraft ELSE Null,
                                   IF withTarget THEN aiTargetObject ELSE Null,
                                   in, 0, active)
    /\ last' = [op |-> "updateAiPilot", input |-> in, active |-> active,
                withShip |-> withShip, withTarget |-> withTarget]
    /\ UNCHANGED <<ui, camera, clock, isAiPilotActive, isPaused, spacecraft, shipTrajectoryPoints,
                   shipTrajectoryLine, celestialBodies, writers, frame, steps>>

(* renderer.render at the end of a frame *)
RenderCall ==
    /\ celestialBodies' = Rendered(celestialBodies)
    /\ last' = [op |-> "render"]
    /\ UNCHANGED <<ui, camera, clock, inputState, isAiPilotActive, isPaused, spacecraft,
                   shipTrajectoryPoints, shipTrajectoryLine, writers, frame, steps>>

NextPilot ==
    \/ \E in \in InputStates, active \in BOOLEAN, withShip \in BOOLEAN,
          withTarget \in BOOLEAN : PilotCall(in, active, withShip, withTarget)
    \/ RenderCall

SpecPilot == InitPilot /\ [][NextPilot]_vars

(* C4: a call of updateAiPilot with active = false, or with the target or   *)
(* the spacecraft absent, leaves the record all false whatever it held.     *)
C4_InactiveForcesAllOff ==
    (last.op = "updateAiPilot"
        /\ (~last.active \/ ~last.withTarget \/ ~last.withShip))
    => inputState = AllOff

(* An inactive call on a record that had all three flags set. *)
C4_Witness ==
    /\ last.op = "updateAiPilot"
    /\ ~last.active
    /\ last.withShip
    /\ last.withTarget
    /\ last.input = [thrust |-> TRUE, turnLeft |-> TRUE, turnRight |-> TRUE]

(* The bearing of the target from the ship, as updateAiPilot sees it *)
PilotTargetDirection ==
    Normalize(VSub(MeshWorldPosition(aiTargetObject), spacecraft.position))

PilotAngleExceeds == AngleExceedsThreshold(ShipForward(spacecraft), PilotTargetDirection)

PilotDistance == Length(VSub(MeshWorldPosition(aiTargetObject), spacecraft.position))

PilotActiveCall ==
    last.op = "updateAiPilot" /\ last.active /\ last.withShip /\ last.withTarget

(* C15: after an active call with a target and a bearing angle above the    *)
(* 5 degree threshold, exactly one of turnLeft and turnRight is true and    *)
(* thrust is false, whether the turn sign is positive, negative or zero and *)
(* whatever the record held before.                                         *)
C15_LargeAngleTurnsOneWay ==
    (PilotActiveCall /\ PilotAngleExceeds) =>
        /\ inputState.turnLeft # inputState.turnRight
        /\ ~inputState.thrust

(* An active call with the target straight behind the ship (turn sign 0),   *)
(* on a record that had all three flags set.                                *)
C15_Witness ==
    /\ PilotActiveCall
    /\ PilotAngleExceeds
    /\ TurnDirectionSign(spacecraft, PilotTargetDirection) = 0
    /\ PilotTargetDirection # Zero3
    /\ last.input = [thrust |-> TRUE, turnLeft |-> TRUE, turnRight |-> TRUE]
    /\ inputState.turnRight

(* C16: after an active call with a target and a bearing angle within the   *)
(* threshold, both turn flags are false and thrust is true exactly when the *)
(* distance to the target exceeds 2.0 times the radius objectRadius returns *)
(* for the target; at or inside that distance thrust is false.              *)
C16_FacingThrustsBeyondDeadband ==
    (PilotActiveCall /\ ~PilotAngleExceeds) =>
        /\ ~inputState.turnLeft
        /\ ~inputState.turnRight
        /\ ~objectRadius(aiTargetObject).nan
        /\ inputState.thrust <=>
              (PilotDistance > 2 * objectRadius(aiTargetObject).value)

(* The ship facing the target at exactly twice its radius: no thrust. *)
C16_Witness ==
    /\ PilotActiveCall
    /\ ~PilotAngleExceeds
    /\ PilotDistance = 2 * objectRadius(aiTargetObject).value
    /\ last.input.thrust
    /\ ~inputState.thrust

---------------------------------------------------------------------------
(* SpecSteer: the autopilot followed by the spacecraft step, as in a frame  *)
(* of animate with the AI pilot on, for a short dt; the ship starts at rest *)
(* in the plane z = 0 in which Mars starts and the ship turns.              *)

SteerPositions ==
    { <<40 * PosUnit, -(10 * PosUnit), 0>>,
      <<55 * PosUnit, 20 * PosUnit, 0>>,
      <<70 * PosUnit, 5 * PosUnit, 0>>,
      <<53 * PosUnit, 0, 0>> }

(* Headings every 30 degrees *)
SteerHeadings == { (k * Pi) \div 6 : k \in 0..11 }

(* Frame times of 0.01 s and 0.02 s *)
SteerDeltas == {1, 2}

InitSteer ==
    \E p \in SteerPositions, h \in SteerHeadings :
        InitWith([createSpacecraft(p) EXCEPT !.rotY = h],
                 <<createSun>> \o createPlanets, FALSE)

SteerCall(delta) ==
    /\ steps < MaxSteps
    /\ LET steered == updateAiPilot(spacecraft, aiTargetObject, inputState, delta, TRUE)
       IN  /\ inputState' = steered
           /\ spacecraft' = updateSpacecraft(spacecraft, steered, delta)
    /\ last' = [op |-> "steer", delta |-> delta, before |-> spacecraft]
    /\ steps' = steps + 1
    /\ UNCHANGED <<ui, camera, clock, isAiPilotActive, isPaused, shipTrajectoryPoints,
                   shipTrajectoryLine, celestialBodies, writers, frame>>

NextSteer == \E delta \in SteerDeltas : SteerCall(delta)

SpecSteer == InitSteer /\ [][NextSteer]_vars

(* The direction of the target from a ship, and the cosine of its bearing *)
TargetDirectionFrom(sc) ==
    Normalize(VSub(MeshWorldPosition(aiTargetObject), sc.position))

BearingCos(sc) == CosAngleTo(ShipForward(sc), TargetDirectionFrom(sc))

(* The target lies in the plane the forward direction turns in, at a        *)
(* bearing above the threshold and strictly below 180 degrees.              *)
SteerCase(sc) ==
    /\ VDot(TargetDirectionFrom(sc), ShipUp(sc)) = 0
    /\ TargetDirectionFrom(sc) # Zero3
    /\ AngleExceedsThreshold(ShipForward(sc), TargetDirectionFrom(sc))
    /\ BearingCos(sc) > -One

(* C21: the turn flag the autopilot asserts agrees with the turn the step   *)
(* performs: with the target in the craft's plane of rotation at a bearing  *)
(* above the threshold and strictly below 180 degrees, the step with the    *)
(* asserted flag and a small dt leaves a smaller bearing angle.             *)
C21_TurnReducesBearing ==
    (last.op = "steer" /\ SteerCase(last.before)) =>
        /\ inputState.turnLeft # inputState.turnRight
        /\ spacecraft.position = last.before.position
        /\ BearingCos(spacecraft) > BearingCos(last.before)

(* A step on a bearing of more than 90 degrees that turned left. *)
C21_Witness ==
    /\ last.op = "steer"
    /\ SteerCase(last.before)
    /\ BearingCos(last.before) < 0
    /\ inputState.turnLeft
    /\ spacecraft.rotY > last.before.rotY

---------------------------------------------------------------------------
(* SpecRadius: objectRadius and objectRadiusHelper called on any object:   *)
(* absent, bare, with a scale, with a bounding sphere, or with both.       *)

(* The radii of the sphere geometries of the scene *)
SceneRadii ==
    {createSun.radius, createEarthMoon.radius}
    \cup { createPlanets[i].radius : i \in DOMAIN createPlanets }

RadiusScales == 1..4

RadiusObjects ==
    {Null, [name |-> "Object3D"]}
    \cup { [scale |-> k] : k \in RadiusScales }
    \cup { [scale |-> k, boundingSphere |-> Null] : k \in RadiusScales }
    \cup { [boundingSphere |-> [radius |-> r]] : r \in SceneRadii }
    \cup { [scale |-> k, boundingSphere |-> [radius |-> r]] :
             k \in RadiusScales, r \in SceneRadii }

RadiusCall(obj) ==
    /\ last' = [op |-> "objectRadius", obj |-> obj, result |-> objectRadius(obj)]
    /\ UNCHANGED <<ui, camera, clock, inputState, isAiPilotActive, isPaused, spacecraft,
                   shipTrajectoryPoints, shipTrajectoryLine, celestialBodies,
                   writers, frame, steps>>

RadiusHelperCall(obj) ==
    /\ last' = [op |-> "objectRadiusHelper", obj |-> obj,
                result |-> objectRadiusHelper(obj)]
    /\ UNCHANGED <<ui, camera, clock, inputState, isAiPilotActive, isPaused, spacecraft,
                   shipTrajectoryPoints, shipTrajectoryLine, celestialBodies,
                   writers, frame, steps>>

NextRadius ==
    \/ \E obj \in RadiusObjects : RadiusCall(obj)
    \/ \E obj \in RadiusObjects : RadiusHelperCall(obj)

SpecRadius == InitWorld /\ [][NextRadius]_vars

(* C12: the radius lookup returns the bounding-sphere radius when the       *)
(* object has one, otherwise scale.x * BASE_PLANET_RADIUS when it has a     *)
(* scale, otherwise 1; for every input, an absent object and an object with *)
(* neither included, the result is a usable positive number.                *)
C12_RadiusUsablePositive ==
    last.op \in {"objectRadius", "objectRadiusHelper"} =>
        /\ ~last.result.nan
        /\ last.result.value > 0
        /\ last.result =
              IF HasField(last.obj, "boundingSphere") /\ last.obj.boundingSphere # Null
              THEN Num(last.obj.boundingSphere.radius)
              ELSE IF HasField(last.obj, "scale")
                   THEN Num(last.obj.scale * BASE_PLANET_RADIUS)
                   ELSE Num(1 * PosUnit)

---------------------------------------------------------------------------
(* uiController.js: the camera focus transition. SpecCamera: the focus     *)
(* button clicked at any time, the transition callback run by              *)
(* requestAnimationFrame, the time of the clock passing and the ship       *)
(* moved in between.                                                       *)

MaxCameraSteps == 4
MaxClock == 200

(* The time that passes between two events: 0.3 s or 1 s *)
TickValues == {30, 100}

(* transitionDuration = 1.2, in centiseconds *)
transitionDuration == 120

(* THREE.Clock.getDelta: the first call starts the clock and returns 0 *)
getDelta(clk) ==
    IF ~clk.running
    THEN [clock |-> [clk EXCEPT !.running = TRUE, !.oldTime = clk.now], delta |-> 0]
    ELSE LET diff == clk.now - clk.oldTime
         IN  [clock |-> [clk EXCEPT !.oldTime = clk.now, !.elapsedTime = @ + diff],
              delta |-> diff]

(* t < 0.5 ? 4 t^3 : 1 - (-2 t + 2)^3 / 2, on percentages *)
easeInOutCubic(t) ==
    IF t < 50 THEN (4 * t * t * t) \div 10000
    ELSE 100 - ((200 - 2 * t) * (200 - 2 * t) * (200 - 2 * t)) \div 20000

(* Vector3.lerpVectors, alpha a percentage *)
lerpVectors(v1, v2, alpha) == VAdd(v1, VScale(VSub(v2, v1), alpha, 100))

(* spacecraft.mesh as the focus target: the cone of radius 1.25 and height *)
(* 3.75, whose bounding sphere (radius 2.2535) exists once it was drawn.   *)
ShipMesh(sc, drawn) ==
    [position |-> sc.position, scale |-> 1,
     boundingSphere |-> IF drawn THEN [radius |-> 22535] ELSE Null]

(* The callback with line 307 left out: the request id survives completion *)
updateCameraTransitionKeepsRequestId(cam, clk) ==
    IF ~cam.isTransitioning THEN [camera |-> cam, clock |-> clk]
    ELSE LET d           == getDelta(clk)
             elapsedTime == d.clock.elapsedTime - cam.transitionStartTime
             progress    == Min2((elapsedTime * 100) \div transitionDuration, 100)
             t           == easeInOutCubic(progress)
             moved       == [cam EXCEPT
                               !.position = lerpVectors(cam.startCamPos, cam.endCamPos, t),
                               !.target = lerpVectors(cam.startTargetPos, cam.endTargetPos, t)]
         IN  IF progress >= 100
             THEN [camera |-> [moved EXCEPT !.isTransitioning = FALSE,
                                            !.position = cam.endCamPos,
                                            !.target = cam.endTargetPos],
                   clock |-> d.clock]
             ELSE [camera |-> [moved EXCEPT !.transitionRequestId = cam.lastHandle + 1,
                                            !.scheduled = @ \cup {cam.lastHandle + 1},
                                            !.lastHandle = @ + 1],
                   clock |-> d.clock]

(* The callback with line 314 left out: it never requests the next frame *)
updateCameraTransitionNotRescheduled(cam, clk) ==
    IF ~cam.isTransitioning THEN [camera |-> cam, clock |-> clk]
    ELSE LET d           == getDelta(clk)
             elapsedTime == d.clock.elapsedTime - cam.transitionStartTime
             progress    == Min2((elapsedTime * 100) \div transitionDuration, 100)
             t           == easeInOutCubic(progress)
             moved       == [cam EXCEPT
                               !.position = lerpVectors(cam.startCamPos, cam.endCamPos, t),
                               !.target = lerpVectors(cam.startTargetPos, cam.endTargetPos, t)]
         IN  IF progress >= 100
             THEN [camera |-> [moved EXCEPT !.isTransitioning = FALSE,
                                            !.transitionRequestId = 0,
                                            !.position = cam.endCamPos,
                                            !.target = cam.endTargetPos],
                   clock |-> d.clock]
             ELSE [camera |-> moved, clock |-> d.clock]

(* The result of both functions: the camera state and the clock. *)
updateCameraTransition(cam, clk) ==
    IF ~cam.isTransitioning THEN [camera |-> cam, clock |-> clk]
    ELSE LET d           == getDelta(clk)
             elapsedTime == d.clock.elapsedTime - cam.transitionStartTime
             progress    == Min2((elapsedTime * 100) \div transitionDuration, 100)
             t           == easeInOutCubic(progress)
             moved       == [cam EXCEPT
                               !.position = lerpVectors(cam.startCamPos, cam.endCamPos, t),
                               !.target = lerpVectors(cam.startTargetPos, cam.endTargetPos, t)]
         IN  IF progress >= 100
             THEN [camera |-> [moved EXCEPT !.isTransitioning = FALSE,
                                            !.transitionRequestId = 0,
                                            !.position = cam.endCamPos,
                                            !.target = cam.endTargetPos],
                   clock |-> d.clock]
             ELSE [camera |-> [moved EXCEPT !.transitionRequestId = cam.lastHandle + 1,
                                            !.scheduled = @ \cup {cam.lastHandle + 1},
                                            !.lastHandle = @ + 1],
                   clock |-> d.clock]

(* startFocusTransition reaches cancelAnimationFrame: it passed the guard *)
(* of line 261 and transitionRequestId is truthy (line 264)              *)
CancelExecuted(cam, targetObject) ==
    /\ ~(targetObject = Null \/ cam.isTransitioning)
    /\ cam.transitionRequestId # 0

startFocusTransition(cam, clk, targetObject) ==
    IF targetObject = Null \/ cam.isTransitioning
    THEN [camera |-> cam, clock |-> clk]
    ELSE LET radius         == objectRadiusHelper(targetObject).value
             cancelled      == IF cam.transitionRequestId # 0
                               THEN cam.scheduled \ {cam.transitionRequestId}
                               ELSE cam.scheduled
             targetPosition == targetObject.position
             cameraDistance == radius * 5 + 15 * PosUnit
             cameraHeight   == (radius * 3) \div 2 + 10 * PosUnit
         IN  updateCameraTransition(
                 [cam EXCEPT !.scheduled = cancelled,
                             !.isTransitioning = TRUE,
                             !.transitionStartTime = clk.elapsedTime,
                             !.startCamPos = cam.position,
                             !.startTargetPos = cam.target,
                             !.endTargetPos = targetPosition,
                             !.endCamPos =
                                 <<targetPosition[1] + cameraDistance \div 2,
                                   targetPosition[2] + cameraHeight,
                                   targetPosition[3] + (cameraDistance * 866) \div 1000>>],
                 clk)

(* performance.now() moves on *)
ClockTick(d) ==
    /\ clock.now + d <= MaxClock
    /\ clock' = [clock EXCEPT !.now = @ + d]
    /\ last' = [op |-> "tick"]
    /\ UNCHANGED <<ui, camera, inputState, isAiPilotActive, isPaused, spacecraft,
                   shipTrajectoryPoints, shipTrajectoryLine, celestialBodies,
                   writers, frame, steps>>

(* The click listener of focusShipBtn, at most maxClicks times *)
FocusShipClickWithin(drawn, maxClicks) ==
    /\ steps < maxClicks
    /\ spacecraft # Null
    /\ LET r == startFocusTransition(camera, clock, ShipMesh(spacecraft, drawn))
       IN  /\ camera' = r.camera
           /\ clock' = r.clock
    /\ last' = [op |-> "startFocusTransition", before |-> camera,
                targetPosition |-> spacecraft.position,
                cancelled |-> CancelExecuted(camera, ShipMesh(spacecraft, drawn))]
    /\ steps' = steps + 1
    /\ UNCHANGED <<ui, inputState, isAiPilotActive, isPaused, spacecraft,
                   shipTrajectoryPoints, shipTrajectoryLine, celestialBodies,
                   writers, frame>>

(* The click listener of focusShipBtn *)
FocusShipClick(drawn) == FocusShipClickWithin(drawn, MaxCameraSteps)

(* requestAnimationFrame runs a pending transition callback *)
TransitionFrame(handle) ==
    /\ steps < MaxCameraSteps
    /\ handle \in camera.scheduled
    /\ LET r == updateCameraTransition([camera EXCEPT !.scheduled = @ \ {handle}], clock)
       IN  /\ camera' = r.camera
           /\ clock' = r.clock
    /\ last' = [op |-> "updateCameraTransition", before |-> camera]
    /\ steps' = steps + 1
    /\ UNCHANGED <<ui, inputState, isAiPilotActive, isPaused, spacecraft,
                   shipTrajectoryPoints, shipTrajectoryLine, celestialBodies,
                   writers, frame>>

NextCamera ==
    \/ \E d \in TickValues : ClockTick(d)
    \/ \E drawn \in BOOLEAN : FocusShipClick(drawn)
    \/ \E handle \in 1..MaxCameraSteps : TransitionFrame(handle)
    \/ \E p \in TrajectoryPositions : MoveShip(p)

SpecCamera == InitWorld /\ [][NextCamera]_vars

(* C13: starting a focus transition while another is in flight cancels the  *)
(* one in flight and takes effect at once: the start and end positions of   *)
(* the new request replace the old ones and the pending callback of the old *)
(* transition is cancelled; the request is neither ignored nor queued.      *)
C13_NewTransitionSupersedes ==
    (last.op = "startFocusTransition" /\ last.before.isTransitioning) =>
        /\ camera.endTargetPos = last.targetPosition
        /\ camera.startCamPos = last.before.position
        /\ camera.startTargetPos = last.before.target
        /\ camera.scheduled \cap last.before.scheduled = {}

(* C24: at most one transition callback is scheduled, whenever             *)
(* isTransitioning is false the stored transitionRequestId is null and no   *)
(* callback is pending, and so startFocusTransition never executes its      *)
(* cancelAnimationFrame call.                                               *)
C24_OneCallbackNoCancel ==
    /\ Cardinality(camera.scheduled) <= 1
    /\ ~camera.isTransitioning =>
           (camera.transitionRequestId = 0 /\ camera.scheduled = {})
    /\ camera.isTransitioning => camera.scheduled = {camera.transitionRequestId}
    /\ last.op = "startFocusTransition" => ~last.cancelled

(* A transition started after an earlier one had run to completion *)
C24_Witness ==
    /\ last.op = "startFocusTransition"
    /\ ~last.before.isTransitioning
    /\ last.before.lastHandle > 0
    /\ camera.isTransitioning
    /\ camera.scheduled = {camera.transitionRequestId}

---------------------------------------------------------------------------
(* SpecCameraLive: the focus transition under the scheduling of the        *)
(* browser. Every animation frame runs animate, which reads the clock      *)
(* first, and then the pending transition callback, the callbacks of a     *)
(* frame running in the order of their requests; a frame comes after the   *)
(* time has moved on. Frames keep firing and the time keeps passing (weak  *)
(* fairness); the clicks are bounded, and the time stops at MaxClock       *)
(* unless a pending callback waits for it.                                 *)

MaxRequests == 1

(* performance.now() moves on *)
TimePasses(d) ==
    /\ \/ clock.now + d <= MaxClock
       \/ camera.scheduled # {} /\ clock.now = clock.oldTime
    /\ clock' = [clock EXCEPT !.now = @ + d]
    /\ last' = [op |-> "tick"]
    /\ UNCHANGED <<ui, camera, inputState, isAiPilotActive, isPaused, spacecraft,
                   shipTrajectoryPoints, shipTrajectoryLine, celestialBodies,
                   writers, frame, steps>>

(* A frame with no transition callback pending: animate reads the clock *)
IdleFrame ==
    /\ camera.scheduled = {}
    /\ ~clock.running \/ clock.now > clock.oldTime
    /\ clock' = getDelta(clock).clock
    /\ last' = [op |-> "frame"]
    /\ UNCHANGED <<ui, camera, inputState, isAiPilotActive, isPaused, spacecraft,
                   shipTrajectoryPoints, shipTrajectoryLine, celestialBodies,
                   writers, frame, steps>>

(* A frame with the transition callback pending: animate reads the clock, *)
(* then the callback runs                                                  *)
CameraFrame(handle) ==
    /\ handle \in camera.scheduled
    /\ clock.now > clock.oldTime
    /\ LET r == updateCameraTransition([camera EXCEPT !.scheduled = @ \ {handle}],
                                       getDelta(clock).clock)
       IN  /\ camera' = r.camera
           /\ clock' = r.clock
    /\ last' = [op |-> "updateCameraTransition", before |-> camera]
    /\ UNCHANGED <<ui, inputState, isAiPilotActive, isPaused, spacecraft,
                   shipTrajectoryPoints, shipTrajectoryLine, celestialBodies,
                   writers, frame, steps>>

AnimationFrame ==
    \/ IdleFrame
    \/ \E handle \in camera.scheduled : CameraFrame(handle)

NextCameraLive ==
    \/ \E d \in TickValues : TimePasses(d)
    \/ \E drawn \in BOOLEAN : FocusShipClickWithin(drawn, MaxRequests)
    \/ AnimationFrame

SpecCameraLive ==
    /\ InitWorld
    /\ [][NextCameraLive]_vars
    /\ WF_vars(AnimationFrame)
    /\ WF_vars(\E d \in TickValues : TimePasses(d))

(* The last event ended a transition *)
TransitionCompleted ==
    /\ last.op \in {"startFocusTransition", "updateCameraTransition"}
    /\ ~camera.isTransitioning

---------------------------------------------------------------------------
(* uiController.js: the info panel and the prediction panel. A click is    *)
(* modelled by what the raycast returns first: "none" for no intersection, *)
(* "unnamed" for a mesh without userData.name (the glow of the Sun, the    *)
(* ring of Saturn), otherwise the userData.name of the mesh.               *)

(* style.display of a panel whose stylesheet rule is display: none *)
Displayed(display) == display = "block"

(* userData.isPlanet: set by createPlanets on the mesh of every planet *)
IsPlanetMesh(name) == \E i \in DOMAIN planetData : planetData[i].name = name

(* celestialBodies.find(b => b.mesh === clickedObject), 0 for undefined *)
FindBody(bodies, name) ==
    IF \E i \in DOMAIN bodies : bodies[i].name = name
    THEN CHOOSE i \in DOMAIN bodies : bodies[i].name = name
    ELSE 0

(* Number.toFixed(1) of a coordinate: tenths, rounded half away from zero *)
ToFixed1(x) == Sign(x) * ((Abs(x) + PosUnit \div 20) \div (PosUnit \div 10))

(* formatVec: (X:..., Z:...) *)
formatVec(v) == <<ToFixed1(v[1]), ToFixed1(v[3])>>

hideInfoPanels(u) ==
    [u EXCEPT !.infoPanel = "none", !.predictionPanel = "none",
              !.selectedPlanetForPrediction = 0]

(* The horizons updatePredictionPanelDOM asks calculateFuturePosition for *)
PredictionRequests(u, selected) ==
    IF selected = 0 \/ u.predictionPanel = "none" THEN {} ELSE {10, 30}

(* updatePredictionPanelDOM(body, delta), body = bodies[selected]; anomaly *)
(* is Math.random() < 0.005. The two AI positions, random text that        *)
(* nothing reads, are left out.                                            *)
updatePredictionPanelDOM(u, bodies, selected, delta, anomaly) ==
    IF selected = 0 \/ u.predictionPanel = "none" THEN u
    ELSE LET cooled  == u.anomalyCooldown - delta
             expired == cooled <= 0
             simPos10 == calculateFuturePosition(bodies[selected], 10 * TimeUnit).position
             simPos30 == calculateFuturePosition(bodies[selected], 30 * TimeUnit).position
         IN  [u EXCEPT
                !.anomalyCooldown = IF expired /\ anomaly THEN 5 * TimeUnit ELSE cooled,
                !.predictionStatus =
                    IF expired /\ anomaly THEN "Anomaly Detected!"
                    ELSE IF expired /\ @ = "Anomaly Detected!" THEN "Nominal" ELSE @,
                !.predictSimPos10 = formatVec(simPos10),
                !.predictSimPos30 = formatVec(simPos30)]

(* onMouseClick with a non-planet branch that leaves the selection alone *)
onMouseClickKeepsSelection(u, hit, transitioning, bodies, anomaly) ==
    IF transitioning THEN u
    ELSE IF hit = "none" THEN hideInfoPanels(u)
    ELSE IF hit # "unnamed"
         THEN LET shown == [u EXCEPT !.infoName = hit, !.infoPanel = "block"]
                  found == FindBody(bodies, hit)
              IN  IF IsPlanetMesh(hit)
                  THEN IF found # 0
                       THEN updatePredictionPanelDOM(
                                [shown EXCEPT !.selectedPlanetForPrediction = found,
                                              !.predictPlanetName = hit,
                                              !.predictionPanel = "block"],
                                bodies, found, 0, anomaly)
                       ELSE [shown EXCEPT !.selectedPlanetForPrediction = 0,
                                          !.predictionPanel = "none"]
                  ELSE [shown EXCEPT !.predictionPanel = "none"]
         ELSE u

(* onMouseClick, hit being what raycaster.intersectObjects returns first. *)
(* The mesh of the ship has userData.name, so the branch of line 187 is   *)
(* never taken and an unnamed mesh changes nothing.                       *)
onMouseClick(u, hit, transitioning, bodies, anomaly) ==
    IF transitioning THEN u
    ELSE IF hit = "none" THEN hideInfoPanels(u)
    ELSE IF hit # "unnamed"
         THEN LET shown == [u EXCEPT !.infoName = hit, !.infoPanel = "block"]
                  found == FindBody(bodies, hit)
              IN  IF IsPlanetMesh(hit)
                  THEN IF found # 0
                       THEN updatePredictionPanelDOM(
                                [shown EXCEPT !.selectedPlanetForPrediction = found,
                                              !.predictPlanetName = hit,
                                              !.predictionPanel = "block"],
                                bodies, found, 0, anomaly)
                       ELSE [shown EXCEPT !.selectedPlanetForPrediction = 0,
                                          !.predictionPanel = "none"]
                  ELSE [shown EXCEPT !.selectedPlanetForPrediction = 0,
                                     !.predictionPanel = "none"]
         ELSE u

(* Math.random() < 0.005 is drawn only when the panel is updated *)
AnomalyDraws(u, selected) ==
    IF PredictionRequests(u, selected) = {} THEN {FALSE} ELSE BOOLEAN

(* The same for a click: only a click on a planet updates the panel *)
ClickAnomalyDraws(hit, transitioning) ==
    IF IsPlanetMesh(hit) /\ ~transitioning THEN BOOLEAN ELSE {FALSE}

---------------------------------------------------------------------------
(* Spec: the running program. animate runs once per frame; the handlers of *)
(* uiController.js run between frames.                                     *)

(* constants.js: MAX_TRAJECTORY_POINTS *)
MAX_TRAJECTORY_POINTS == MaxPoints

Keys == {"w", "a", "d"}

Buttons == {"thrustBtn", "turnLeftBtn", "turnRightBtn"}

FlagOfKey(key) ==
    IF key = "w" THEN "thrust" ELSE IF key = "a" THEN "turnLeft" ELSE "turnRight"

FlagOfButton(btn) ==
    IF btn = "thrustBtn" THEN "thrust"
    ELSE IF btn = "turnLeftBtn" THEN "turnLeft" ELSE "turnRight"

(* A handler of a control that writes its flag whatever the AI-pilot flag is *)
HandlerWriteUnguarded(flag, value, op) ==
    /\ inputState' = [inputState EXCEPT ![flag] = value]
    /\ writers' = writers \cup {"human"}
    /\ last' = [op |-> op, flag |-> flag]
    /\ UNCHANGED <<ui, camera, clock, isAiPilotActive, isPaused, spacecraft, shipTrajectoryPoints,
                   shipTrajectoryLine, celestialBodies, frame, steps>>

(* A handler of a control: if (!isAiPilotActive) inputState[flag] = value *)
HandlerWrite(flag, value, op) ==
    /\ IF isAiPilotActive
       THEN UNCHANGED <<inputState, writers>>
       ELSE /\ inputState' = [inputState EXCEPT ![flag] = value]
            /\ writers' = writers \cup {"human"}
    /\ last' = [op |-> op, flag |-> flag]
    /\ UNCHANGED <<ui, camera, clock, isAiPilotActive, isPaused, spacecraft, shipTrajectoryPoints,
                   shipTrajectoryLine, celestialBodies, frame, steps>>

KeyDown(key) == HandlerWrite(FlagOfKey(key), TRUE, "keydown")

MouseDown(btn) == HandlerWrite(FlagOfButton(btn), TRUE, "mousedown")

MouseUp(btn) == HandlerWrite(FlagOfButton(btn), FALSE, "mouseup")

MouseLeave(btn) == HandlerWrite(FlagOfButton(btn), FALSE, "mouseleave")

(* toggleAiPilot: both branches replace the record by a fresh all-false one *)
toggleAiPilot ==
    /\ isAiPilotActive' = ~isAiPilotActive
    /\ inputState' = AllOff
    /\ writers' = {"toggle"}
    /\ last' = [op |-> "toggleAiPilot"]
    /\ UNCHANGED <<ui, camera, clock, isPaused, spacecraft, shipTrajectoryPoints,
                   shipTrajectoryLine, celestialBodies, frame, steps>>

(* keyup: 'p' toggles the AI pilot, the other keys release their flag *)
KeyUp(key) ==
    IF key = "p" THEN toggleAiPilot
    ELSE HandlerWrite(FlagOfKey(key), FALSE, "keyup")

AiPilotButtonClick == toggleAiPilot

(* A frame in which the spacecraft step reads the record as it was before   *)
(* the autopilot ran (shipSeesPilot false), or in which the pause flag also *)
(* stops the spacecraft step and the recorder (pauseFreezesShip true).      *)
AnimateVariant(delta, shipSeesPilot, pauseFreezesShip) ==
    /\ steps < MaxFrames
    /\ LET steered  == updateAiPilot(spacecraft, aiTargetObject, inputState,
                                     delta, isAiPilotActive)
           frozen   == pauseFreezesShip /\ isPaused
           ship     == IF frozen THEN spacecraft
                       ELSE updateSpacecraft(spacecraft,
                                IF shipSeesPilot THEN steered ELSE inputState, delta)
           recorded == IF frozen
                       THEN [points |-> shipTrajectoryPoints, line |-> shipTrajectoryLine]
                       ELSE updateTrajectoryLine(ship, shipTrajectoryLine,
                                shipTrajectoryPoints, MAX_TRAJECTORY_POINTS)
       IN  /\ inputState' = steered
           /\ spacecraft' = ship
           /\ shipTrajectoryPoints' = recorded.points
           /\ shipTrajectoryLine' = recorded.line
           /\ celestialBodies' =
                 Rendered(updateCelestials(celestialBodies, delta, isPaused))
           /\ frame' = [n |-> frame.n + 1, delta |-> delta,
                        ai |-> isAiPilotActive, before |-> inputState,
                        consumed |-> steered,
                        writers |-> writers \cup {"autopilot"},
                        paused |-> isPaused, shipBefore |-> spacecraft,
                        pointsBefore |-> shipTrajectoryPoints,
                        lineBefore |-> shipTrajectoryLine,
                        bodiesBefore |-> celestialBodies]
    /\ writers' = {}
    /\ last' = [op |-> "animate", delta |-> delta]
    /\ steps' = steps + 1
    /\ UNCHANGED <<ui, camera, clock, isAiPilotActive, isPaused>>

animateShipBeforePilot(delta) == AnimateVariant(delta, FALSE, FALSE)

animateFrozenWhilePaused(delta) == AnimateVariant(delta, TRUE, TRUE)

(* The body of animate from line 126 on (the prediction panel of the       *)
(* selected body, lines 152-154, included), delta and clk being the value   *)
(* and the clock that clock.getDelta() of line 123 left. The frame record keeps *)
(* the time of this reading of a running clock, the time since the reading  *)
(* of the previous frame and the sum of the dt of the frames after the      *)
(* first.                                                                   *)
AnimateOn(delta, clk, maxSteps) ==
    /\ steps < maxSteps
    /\ LET steered  == updateAiPilot(spacecraft, aiTargetObject, inputState,
                                     delta, isAiPilotActive)
           ship     == updateSpacecraft(spacecraft, steered, delta)
           recorded == updateTrajectoryLine(ship, shipTrajectoryLine,
                                            shipTrajectoryPoints, MAX_TRAJECTORY_POINTS)
       IN  /\ inputState' = steered
           /\ spacecraft' = ship
           /\ shipTrajectoryPoints' = recorded.points
           /\ shipTrajectoryLine' = recorded.line
           /\ celestialBodies' =
                 Rendered(updateCelestials(celestialBodies, delta, isPaused))
           /\ \E anomaly \in AnomalyDraws(ui, ui.selectedPlanetForPrediction) :
                 ui' = updatePredictionPanelDOM(ui,
                           updateCelestials(celestialBodies, delta, isPaused),
                           ui.selectedPlanetForPrediction, delta, anomaly)
           /\ frame' = [n |-> frame.n + 1, delta |-> delta,
                        ai |-> isAiPilotActive, before |-> inputState,
                        consumed |-> steered,
                        writers |-> writers \cup {"autopilot"},
                        paused |-> isPaused, shipBefore |-> spacecraft,
                        pointsBefore |-> shipTrajectoryPoints,
                        lineBefore |-> shipTrajectoryLine,
                        bodiesBefore |-> celestialBodies,
                        selected |-> ui.selectedPlanetForPrediction,
                        panel |-> ui.predictionPanel,
                        predicted |-> PredictionRequests(ui,
                                          ui.selectedPlanetForPrediction),
                        at |-> clk.oldTime,
                        since |-> IF frame.n = 0 THEN 0 ELSE clk.oldTime - frame.at,
                        first |-> IF frame.n = 0 THEN clk.oldTime ELSE frame.first,
                        sum |-> IF frame.n = 0 \/ ~clk.running THEN 0
                                ELSE frame.sum + delta]
    /\ writers' = {}
    /\ last' = [op |-> "animate", delta |-> delta]
    /\ steps' = steps + 1
    /\ UNCHANGED <<isAiPilotActive, isPaused>>

(* animate: one frame with clock.getDelta() = delta *)
animate(delta) ==
    /\ AnimateOn(delta, clock, MaxFrames)
    /\ UNCHANGED <<camera, clock>>

Next ==
    \/ \E delta \in DeltaValues : animate(delta)
    \/ \E key \in Keys : KeyDown(key)
    \/ \E key \in Keys \cup {"p"} : KeyUp(key)
    \/ \E btn \in Buttons : MouseDown(btn)
    \/ \E btn \in Buttons : MouseUp(btn)
    \/ \E btn \in Buttons : MouseLeave(btn)
    \/ AiPilotButtonClick

Spec == InitWorld /\ [][Next]_vars

Flags == {"thrust", "turnLeft", "turnRight"}

(* The events of the thrust/turn keys and of the three control buttons *)
ControlEvents == {"keydown", "keyup", "mousedown", "mouseup", "mouseleave"}

(* C26: while the AI pilot is active no thrust/turn key event and no mouse  *)
(* event on the control buttons changes the record, and every toggle of the *)
(* AI pilot, in either direction, leaves the record all false.              *)
C26_AiPilotLocksControls ==
    [][ /\ (isAiPilotActive /\ last'.op \in ControlEvents)
               => inputState' = inputState
        /\ (last'.op = "toggleAiPilot" /\ isAiPilotActive' # isAiPilotActive)
               => inputState' = AllOff ]_vars

(* A release event arrived with the AI pilot on and the flag stayed set *)
C26_Witness ==
    /\ last.op \in {"keyup", "mouseup", "mouseleave"}
    /\ isAiPilotActive
    /\ inputState[last.flag]

(* C2: in every frame the record has one writer, chosen by the AI-pilot     *)
(* flag: with the AI pilot off only the human-input handlers write it, the  *)
(* autopilot does not; with the AI pilot on only the autopilot writes it.   *)
C2_SingleWriterPerFrame ==
    frame.n > 0 =>
        IF frame.ai THEN "human" \notin frame.writers
                    ELSE "autopilot" \notin frame.writers

(* C3: with the AI pilot off, a flag set by a human input event and not     *)
(* released before the next frame is still true in the record that the      *)
(* spacecraft step of that frame consumes.                                  *)
C3_ManualInputReachesStep ==
    (frame.n > 0 /\ ~frame.ai) =>
        \A f \in Flags : frame.before[f] => frame.consumed[f]

(* The target of the autopilot as it was when the frame began *)
FrameTarget ==
    frame.bodiesBefore[CHOOSE i \in DOMAIN frame.bodiesBefore :
                           frame.bodiesBefore[i].name = "Mars"]

(* C18: in every frame the four core updates run in the order autopilot,    *)
(* spacecraft step, trajectory recorder, body kinematics, each once and all *)
(* with the same dt: the step consumes the record the autopilot wrote in    *)
(* this frame and the recorder sees the position this step produced.        *)
C18_FrameOrder ==
    last.op = "animate" =>
        /\ inputState = updateAiPilot(frame.shipBefore, FrameTarget, frame.before,
                                      frame.delta, frame.ai)
        /\ spacecraft = updateSpacecraft(frame.shipBefore, inputState, frame.delta)
        /\ shipTrajectoryPoints =
              updateTrajectoryLine(spacecraft, frame.lineBefore, frame.pointsBefore,
                                   MAX_TRAJECTORY_POINTS).points
        /\ shipTrajectoryPoints[1] = spacecraft.position
        /\ celestialBodies =
              Rendered(updateCelestials(frame.bodiesBefore, frame.delta, frame.paused))

(* A second frame, of 1 s, in which the autopilot set a flag that the       *)
(* record did not have and the ship turned by it.                           *)
C18_Witness ==
    /\ last.op = "animate"
    /\ frame.n = 2
    /\ frame.ai
    /\ frame.delta = TimeUnit
    /\ frame.before = AllOff
    /\ inputState # AllOff
    /\ spacecraft # frame.shipBefore
    /\ celestialBodies # Rendered(frame.bodiesBefore)

---------------------------------------------------------------------------
(* SpecPaused: the frames of the program with the AI pilot toggled in      *)
(* between, the pause flag of app.js set or not, the ship at rest at       *)
(* several places and headings.                                            *)

InitPaused ==
    \E p \in PilotPositions, h \in PilotHeadings, paused \in BOOLEAN :
        InitWith([createSpacecraft(p) EXCEPT !.rotY = h],
                 <<createSun>> \o createPlanets, paused)

NextPaused ==
    \/ \E delta \in DeltaValues : animate(delta)
    \/ AiPilotButtonClick

SpecPaused == InitPaused /\ [][NextPaused]_vars

(* C19: the pause flag is read by the body kinematics only: in a frame with *)
(* the flag set the spacecraft step still updates velocity and position     *)
(* from the input and the recorder still records the new position, while no *)
(* angle of any body changes.                                               *)
C19_PauseStopsBodiesOnly ==
    (last.op = "animate" /\ frame.paused) =>
        /\ spacecraft = updateSpacecraft(frame.shipBefore, inputState, frame.delta)
        /\ shipTrajectoryPoints =
              updateTrajectoryLine(spacecraft, frame.lineBefore, frame.pointsBefore,
                                   MAX_TRAJECTORY_POINTS).points
        /\ shipTrajectoryPoints[1] = spacecraft.position
        /\ celestialBodies = Rendered(frame.bodiesBefore)

(* A paused second frame of 1 s in which the ship, already moving, thrusted *)
(* toward the target, moved, and its new position was recorded.             *)
C19_Witness ==
    /\ last.op = "animate"
    /\ frame.paused
    /\ frame.n = 2
    /\ frame.delta = TimeUnit
    /\ inputState.thrust
    /\ frame.shipBefore.velocity # Zero3
    /\ spacecraft.velocity # frame.shipBefore.velocity
    /\ spacecraft.position # frame.shipBefore.position
    /\ Len(shipTrajectoryPoints) = 2
    /\ shipTrajectoryPoints[2] = frame.shipBefore.position

---------------------------------------------------------------------------
(* SpecClock: the frames of the program on the clock that the focus        *)
(* transition shares with them. A frame runs animate, which reads the      *)
(* clock at line 123, and then the pending transition callback, which      *)
(* reads it again; the focus button is clicked between frames.             *)

(* The time animate takes before the callback of the same frame runs: less *)
(* than the unit of the clock, or 10 ms                                    *)
WorkValues == {0, 1}

(* One animation frame: animate, then the transition callback if pending *)
animateOnClock(work) ==
    LET d == getDelta(clock)
        r == IF camera.scheduled = {}
             THEN [camera |-> camera, clock |-> d.clock]
             ELSE updateCameraTransition([camera EXCEPT !.scheduled = {}],
                                         [d.clock EXCEPT !.now = @ + work])
    IN  /\ AnimateOn(d.delta, d.clock, MaxCameraSteps)
        /\ camera' = r.camera
        /\ clock' = r.clock

NextClock ==
    \/ \E d \in TickValues : ClockTick(d)
    \/ \E drawn \in BOOLEAN : FocusShipClick(drawn)
    \/ \E work \in WorkValues : animateOnClock(work)

SpecClock == InitWorld /\ [][NextClock]_vars

(* C22: the dt of a frame equals the clock time elapsed since the previous  *)
(* frame, also while a focus transition is running, and the sum of the dt   *)
(* delivered to the simulation equals the total elapsed clock time.         *)
C22_DtIsElapsedTime ==
    (last.op = "animate" /\ frame.n >= 2) =>
        /\ frame.delta = frame.since
        /\ frame.sum = frame.at - frame.first

---------------------------------------------------------------------------
(* SpecPanels: clicks on the scene and on the buttons, the close button,   *)
(* the focus transition and the frames of the program. Every click bubbles *)
(* to the click listener of the window, which runs onMouseClick with what  *)
(* lies under the pointer.                                                 *)

Hits == {"none", "unnamed", "Spacecraft", "Moon", "Earth", "Mars"}

(* A click on the scene or on a button without a click listener *)
WindowClick(hit) ==
    /\ \E anomaly \in ClickAnomalyDraws(hit, camera.isTransitioning) :
          ui' = onMouseClick(ui, hit, camera.isTransitioning, celestialBodies, anomaly)
    /\ last' = [op |-> "click"]
    /\ UNCHANGED <<camera, clock, inputState, isAiPilotActive, isPaused, spacecraft,
                   shipTrajectoryPoints, shipTrajectoryLine, celestialBodies,
                   writers, frame, steps>>

(* A click on closeButton, a child of the info panel: hideInfoPanels, then *)
(* the click listener of the window                                        *)
CloseButtonClick(hit) ==
    /\ Displayed(ui.infoPanel)
    /\ \E anomaly \in ClickAnomalyDraws(hit, camera.isTransitioning) :
          ui' = onMouseClick(hideInfoPanels(ui), hit, camera.isTransitioning,
                             celestialBodies, anomaly)
    /\ last' = [op |-> "close"]
    /\ UNCHANGED <<camera, clock, inputState, isAiPilotActive, isPaused, spacecraft,
                   shipTrajectoryPoints, shipTrajectoryLine, celestialBodies,
                   writers, frame, steps>>

(* A click on focusShipBtn: its listener, then the listener of the window *)
FocusShipButtonClick(hit) ==
    /\ steps < MaxFrames
    /\ LET r == startFocusTransition(camera, clock, ShipMesh(spacecraft, TRUE))
       IN  /\ camera' = r.camera
           /\ clock' = r.clock
           /\ \E anomaly \in ClickAnomalyDraws(hit, r.camera.isTransitioning) :
                 ui' = onMouseClick(ui, hit, r.camera.isTransitioning,
                                    celestialBodies, anomaly)
    /\ last' = [op |-> "focus"]
    /\ steps' = steps + 1
    /\ UNCHANGED <<inputState, isAiPilotActive, isPaused, spacecraft,
                   shipTrajectoryPoints, shipTrajectoryLine, celestialBodies,
                   writers, frame>>

NextPanels ==
    \/ \E hit \in Hits : WindowClick(hit)
    \/ \E hit \in Hits : CloseButtonClick(hit)
    \/ \E hit \in Hits : FocusShipButtonClick(hit)
    \/ \E handle \in 1..MaxCameraSteps : TransitionFrame(handle)
    \/ ClockTick(TimeUnit)
    \/ \E delta \in DeltaValues : animate(delta)

SpecPanels == InitWorld /\ [][NextPanels]_vars

(* C25: a body is selected for prediction exactly when the prediction       *)
(* panel is displayed, the info panel is displayed whenever the prediction  *)
(* panel is, and a frame requests the predictions at the horizons 10 and 30 *)
(* only while a planet is selected and its panel is visible.                *)
C25_SelectionMatchesPanel ==
    /\ (ui.selectedPlanetForPrediction # 0) <=> Displayed(ui.predictionPanel)
    /\ Displayed(ui.predictionPanel) => Displayed(ui.infoPanel)
    /\ ui.selectedPlanetForPrediction # 0 =>
           /\ IsPlanetMesh(celestialBodies[ui.selectedPlanetForPrediction].name)
           /\ ui.predictPlanetName = celestialBodies[ui.selectedPlanetForPrediction].name
    /\ last.op = "animate" =>
           /\ frame.predicted \in {{}, {10, 30}}
           /\ frame.predicted # {} <=> (frame.selected # 0 /\ Displayed(frame.panel))

(* The second frame has predicted for Mars, selected by a click, with its  *)
(* panel displayed                                                         *)
C25_Witness ==
    /\ last.op = "animate"
    /\ frame.predicted = {10, 30}
    /\ frame.n = 2
    /\ frame.delta > 0
    /\ ui.predictSimPos10 # <<>>
    /\ ui.predictSimPos10 # ui.predictSimPos30
    /\ ui.predictPlanetName = "Mars"
    /\ Displayed(ui.predictionPanel)

====
